---- MODULE Spec2Model ----
(***************************************************************************)
(* Deep-scan job pipeline: submission gateway (src/index.js), BullMQ queue *)
(* (src/jobs/queue.js), worker and its 'completed' listener                *)
(* (src/jobs/worker.js) and the v3.0 multi-agent orchestration             *)
(* (services/deepScanService.js, DeepScanService.performMultipleDeepScan). *)
(***************************************************************************)
EXTENDS Integers, Sequences, FiniteSets, TLC

\* ------------------------------------------------------------------------
\* Bounds of the model
\* ------------------------------------------------------------------------
MaxFpUrls == 3
MaxSubmits == 2
MaxCrashes == 2
MaxDedupUrls == 4
MaxCapUrls == 6
MaxPoolJobs == 6
MaxLiveJobs == 1
MaxAcquireUrls == 2
MaxAgentSites == 2
MaxProgressSites == 4

\* ------------------------------------------------------------------------
\* Values
\* ------------------------------------------------------------------------
\* A JavaScript undefined (a missing request field, a missing document key).
Undefined == "undefined"

\* The URL strings of the model, listed in the order of JavaScript's default
\* Array.prototype.sort (UTF-16 code units): "a" < "h" < "l", "http:" < "https".
UrlOrder ==
  <<"a.com", "http://a.com/x", "https://a.com", "https://b.com", "https://c.com",
    "https://c.com:99999", "https://d.com", "https://e.com", "https://f.com", "localhost">>

UrlRank(u) == CHOOSE i \in 1..Len(UrlOrder) : UrlOrder[i] = u

\* URLs a caller submits to the running system / to the fingerprint check.
FpUrls == {"a.com", "http://a.com/x", "https://b.com", "localhost"}
Brands == {Undefined, "", "Acme"}
FpBrands == {"Acme", "Zen"}
Categories == {Undefined}
FpCategories == {Undefined, "General", "SaaS"}

\* tldts getDomain: the registrable domain, or null when there is none.
NullDomain == "null"
getDomain(u) ==
  CASE u \in {"a.com", "http://a.com/x", "https://a.com"} -> "a.com"
    [] u = "https://b.com" -> "b.com"
    [] u \in {"https://c.com", "https://c.com:99999"} -> "c.com"
    [] u = "https://d.com" -> "d.com"
    [] u = "https://e.com" -> "e.com"
    [] u = "https://f.com" -> "f.com"
    [] OTHER -> NullDomain

\* new URL(url) does not throw. The port of "https://c.com:99999" is out of
\* range: the string has a registrable domain and is not a URL.
validUrl(u) == u # "https://c.com:99999"

SeqsUpTo(S, n) == UNION {[1..m -> S] : m \in 0..n}

\* The distinct entries of a list.
Range(s) == {s[i] : i \in 1..Len(s)}

\* ------------------------------------------------------------------------
\* Submission gateway: fingerprint
\* ------------------------------------------------------------------------
RECURSIVE insertSorted(_, _)
insertSorted(x, s) ==
  IF s = <<>> THEN <<x>>
  ELSE IF UrlRank(x) < UrlRank(Head(s)) THEN <<x>> \o s
  ELSE <<Head(s)>> \o insertSorted(x, Tail(s))

RECURSIVE sortCopy(_)
\* [...competitorUrls].sort()
sortCopy(s) == IF s = <<>> THEN <<>> ELSE insertSorted(Head(s), sortCopy(Tail(s)))

\* A faulty variant of sortedUrls: the list hashed as submitted.
sortedUrlsUnsorted(competitorUrls) == competitorUrls

sortedUrls(competitorUrls) == sortCopy(competitorUrls)

\* category || 'General'
\* A faulty variant of categoryOrGeneral: the category is hashed as submitted.
categoryAsSubmitted(category) == category

categoryOrGeneral(category) == IF category \in {Undefined, ""} THEN "General" ELSE category

\* sha256(JSON.stringify({brandName, category, competitorUrls})).substring(0, 16):
\* the digest is represented by the serialized triple itself (the hash is taken
\* as collision-free on the inputs of the model).
fingerprint(brandName, category, competitorUrls) ==
  [brandName |-> brandName,
   category |-> categoryOrGeneral(category),
   competitorUrls |-> sortedUrls(competitorUrls)]

NoId == [brandName |-> "", category |-> "", competitorUrls |-> <<>>]

\* A faulty variant of invalidSubmission: the Array.isArray test is left out.
invalidSubmissionNoArrayTest(req) ==
  req.brandName \in {"", Undefined} \/ Len(req.competitorUrls) = 0

\* !brandName || !Array.isArray(competitorUrls) || competitorUrls.length === 0
\* A request carries, next to the value of competitorUrls, whether that value
\* is an array (urlsIsArray); a value that is not an array may still have a
\* non-zero length (a string).
invalidSubmission(req) ==
  req.brandName \in {"", Undefined} \/ ~req.urlsIsArray \/ Len(req.competitorUrls) = 0

\* The URL lists submitted to the running system.
SubmitLists ==
  {<<>>, <<"localhost">>, <<"a.com", "https://b.com">>, <<"https://b.com", "a.com">>}

\* The requests submitted to the running system: a brand with every list,
\* every brand (missing and empty included) with one list, and a request
\* whose competitorUrls is not an array.
Requests ==
  [brandName : {"Acme"}, category : Categories, competitorUrls : SubmitLists,
   urlsIsArray : {TRUE}]
  \cup
  [brandName : Brands, category : Categories,
   competitorUrls : {<<"a.com", "https://b.com">>}, urlsIsArray : BOOLEAN]

FpRequests ==
  [brandName : FpBrands, category : FpCategories, competitorUrls : SeqsUpTo(FpUrls, MaxFpUrls),
   urlsIsArray : {TRUE}]

\* ------------------------------------------------------------------------
\* State
\* ------------------------------------------------------------------------
VARIABLES
  jobs,      \* the queue's jobs (Redis): a sequence of job records
  exec,      \* per job, the processor invocation in the worker's memory
  pending,   \* jobs whose 'completed' listener has been emitted and not run yet
  db,        \* the deepScans collection: jobId -> document
  resp,      \* the last HTTP response sent
  first,     \* the first submission of a pair, its response, and the list submitted again
  nSubmits,  \* Submit requests handled so far
  nCrashes,  \* worker faults so far: process crashes and expired locks
  zombies,   \* per job, the processor invocations still running after losing the job's lock
  lostBrowsers \* per job, the browsers open in those invocations

vars == <<jobs, exec, pending, db, resp, first, nSubmits, nCrashes, zombies, lostBrowsers>>

JobKeys == 1..Len(jobs)

NoResult ==
  [settled |-> FALSE, success |-> FALSE, hasData |-> FALSE, error |-> Undefined,
   competitorsAnalyzed |-> <<>>, analysis |-> Undefined, detailedAgentReports |-> <<>>]

NoExec ==
  [pc |-> "idle", urlsToProcess |-> <<>>, acq |-> <<>>, completedCrawls |-> 0,
   browsers |-> {}, agents |-> <<>>, calls |-> {}, completedAgentRuns |-> 0,
   synth |-> "none", synthInput |-> <<>>, synthCalls |-> 0, percent |-> -1,
   callback |-> "none", tech |-> <<>>]

NoDoc == [keys |-> {}]

NoResp ==
  [op |-> "none", status |-> 0, jobId |-> NoId, state |-> Undefined, progress |-> 0,
   keys |-> {}, result |-> NoDoc, error |-> Undefined]

\* No HTTP response is in flight. A response is observed in the state it is
\* computed in and is sent (Respond) before the system takes another step.
Idle == resp.op = "none"

NoFirst == [status |-> 0, jobId |-> NoId, again |-> <<>>,
            req |-> [brandName |-> "", category |-> Undefined, competitorUrls |-> <<>>,
                     urlsIsArray |-> TRUE]]

Init ==
  /\ jobs = <<>>
  /\ exec = <<>>
  /\ pending = {}
  /\ db = <<>>
  /\ resp = NoResp
  /\ first = NoFirst
  /\ nSubmits = 0
  /\ nCrashes = 0
  /\ zombies = <<>>
  /\ lostBrowsers = <<>>

\* ------------------------------------------------------------------------
\* Queue (BullMQ Queue 'analysisQueue')
\* ------------------------------------------------------------------------
\* A faulty variant of newJob: add() hands the job to the processor itself, and
\* returns a job that is already active.
newJobActive(data, jobId) ==
  [id |-> jobId, data |-> data, state |-> "active", progress |-> 0,
   failedReason |-> Undefined, returnvalue |-> NoResult, stalledCount |-> 0]

newJob(data, jobId) ==
  [id |-> jobId, data |-> data, state |-> "waiting", progress |-> 0,
   failedReason |-> Undefined, returnvalue |-> NoResult, stalledCount |-> 0]

\* A job removed from the queue (removeOnComplete) leaves no trace in Redis.
RemovedJob == [newJob([brandName |-> "", category |-> Undefined, competitorUrls |-> <<>>], NoId)
                 EXCEPT !.state = "removed"]

\* analysisQueue.getJob(jobId): the keys of the jobs stored under jobId.
getJob(q, jobId) == {k \in 1..Len(q) : q[k].id = jobId /\ q[k].state # "removed"}

\* A faulty variant of queueAdd: add() without the { jobId } option, every call a new job.
queueAddAlways(q, data, jobId) == Append(q, newJob(data, jobId))

\* analysisQueue.add('deepScan', data, { jobId }): a job whose id is already in
\* the queue is not added again.
queueAdd(q, data, jobId) ==
  IF getJob(q, jobId) # {} THEN q ELSE Append(q, newJob(data, jobId))

\* ------------------------------------------------------------------------
\* POST /deep-scan
\* ------------------------------------------------------------------------
\* The job data { brandName, category, competitorUrls } of a request.
\* A faulty variant of jobData: the list sorted for the fingerprint is stored.
jobDataSorted(req) ==
  [brandName |-> req.brandName, category |-> categoryOrGeneral(req.category),
   competitorUrls |-> sortedUrls(req.competitorUrls)]

jobData(req) ==
  [brandName |-> req.brandName, category |-> req.category,
   competitorUrls |-> req.competitorUrls]

\* The handler, validation to response. The response is sent once add() and
\* the two queue reads (getWaiting, getActive) have returned.
deepScanHandler(req) ==
  /\ nSubmits' = nSubmits + 1
  /\ IF invalidSubmission(req)
     THEN /\ resp' = [NoResp EXCEPT !.op = "submit", !.status = 400]
          /\ UNCHANGED <<jobs, exec, zombies, lostBrowsers>>
     ELSE LET id == fingerprint(req.brandName, req.category, req.competitorUrls)
              q == queueAdd(jobs, jobData(req), id)
          IN /\ jobs' = q
             /\ exec' = IF Len(q) > Len(jobs) THEN Append(exec, NoExec) ELSE exec
             /\ zombies' = IF Len(q) > Len(jobs) THEN Append(zombies, 0) ELSE zombies
             /\ lostBrowsers' = IF Len(q) > Len(jobs) THEN Append(lostBrowsers, 0) ELSE lostBrowsers
             /\ resp' = [NoResp EXCEPT !.op = "submit", !.status = 202, !.jobId = id]
  /\ UNCHANGED <<pending, db, nCrashes>>

Submit(req) == nSubmits < MaxSubmits /\ deepScanHandler(req)

\* A caller submits a request; the request and its response are on record
\* until the response is sent.
SubmitAny ==
  /\ Idle
  /\ \E req \in Requests :
       /\ Submit(req)
       /\ first' = [status |-> resp'.status, jobId |-> resp'.jobId, req |-> req, again |-> <<>>]

\* ------------------------------------------------------------------------
\* Worker (BullMQ Worker on 'analysisQueue') and the deep-scan orchestration
\* ------------------------------------------------------------------------
Concurrency == 4
MaxStalledCount == 1
SiteCap == 5
\* The limiter of the earlier worker ({ max: 5, duration: 60000 }), removed
\* from the Worker options in use.
LimiterMax == 5

TotalFailureMsg == "No competitor data could be analyzed. All attempts failed."
SynthesisFailureMsg == "synthesis request failed"
StalledMsg == "job stalled more than allowable limit"

RECURSIVE dedupFrom(_, _)
dedupFrom(urls, uniqueDomains) ==
  IF urls = <<>> THEN <<>>
  ELSE LET domain == getDomain(Head(urls))
       IN IF domain = NullDomain \/ domain \in uniqueDomains
          THEN dedupFrom(Tail(urls), uniqueDomains)
          ELSE <<Head(urls)>> \o dedupFrom(Tail(urls), uniqueDomains \cup {domain})

\* A faulty variant of deduplicateByDomain: invalid URLs are dropped, but the
\* domains already seen are not remembered.
\* A faulty variant of deduplicateByDomain: the first URL without a registrable
\* domain ends the walk, so the URLs after it are lost with it.
deduplicateStopAtInvalid(urls) ==
  LET bad == {i \in 1..Len(urls) : getDomain(urls[i]) = NullDomain}
  IN IF bad = {} THEN dedupFrom(urls, {})
     ELSE dedupFrom(SubSeq(urls, 1, (CHOOSE i \in bad : \A j \in bad : i <= j) - 1), {})

deduplicateNoSeen(urls) == SelectSeq(urls, LAMBDA u : getDomain(u) # NullDomain)

deduplicateByDomain(urls) == dedupFrom(urls, {})

\* A faulty variant of slice: the whole list is kept.
sliceAll(s, n) == s

\* Array.prototype.slice(0, n)
slice(s, n) == SubSeq(s, 1, IF Len(s) < n THEN Len(s) ELSE n)

\* The url of a snapshot: the requested URL with 'https://' prefixed when it
\* has no scheme (redirects are not modelled).
snapshotUrl(u) == IF u = "a.com" THEN "https://a.com" ELSE u

\* A faulty variant of crawlPercent: the quotient is truncated.
crawlPercentTruncated(completedCrawls, total) == (50 * completedCrawls) \div total

\* Math.round((completedCrawls / total) * 50)
crawlPercent(completedCrawls, total) == (100 * completedCrawls + total) \div (2 * total)

\* Math.round(50 + (completedAgentRuns / successful) * 50)
agentPercent(completedAgentRuns, successful) ==
  50 + (100 * completedAgentRuns + successful) \div (2 * successful)

\* The progress callback the service is given. jobs/worker.js calls the exported
\* performMultipleDeepScan(competitorUrls, brandName, category), which passes no
\* callback: the default () => {} ("none") leaves the job untouched. The
\* processor that passes (percent) => job.updateProgress(percent) has the
\* percentage written to the job.
progressCallback(callback, job, percent) ==
  IF callback = "updateProgress" THEN [job EXCEPT !.progress = percent] ELSE job

\* The snapshot a finished acquisition returns: analyzedData of
\* analyzWithPuppeteer (screenshot and performance metrics measured in the
\* page), or the object of analyzeWithFallback (screenshot: null, no
\* performance member).
snapshot(u, outcome) ==
  IF outcome = "ok_primary"
  THEN [url |-> snapshotUrl(u), analysisMethod |-> "PUPPETEER_SUCCESS",
        screenshot |-> "base64", performance |-> "metrics"]
  ELSE [url |-> snapshotUrl(u), analysisMethod |-> "FALLBACK_SUCCESS",
        screenshot |-> "null", performance |-> Undefined]

IsOk(a) == a \in {"ok_primary", "ok_fallback"}
\* A faulty variant of IsSettled: the promise of a site whose acquisition failed
\* stays pending, so Promise.all over the sites never resolves.
IsSettledOnlyOk(a) == IsOk(a)

IsSettled(a) == IsOk(a) \/ a = "failed"

\* A faulty variant of successfulAnalyses: every settled site counts as analyzed.
successfulAnalysesAll(acq) == [i \in 1..Len(acq) |-> i]

\* successfulAnalyses, as the indices into urlsToProcess of the fulfilled sites,
\* in the order of urlsToProcess.
successfulAnalyses(acq) ==
  SelectSeq([i \in 1..Len(acq) |-> i], LAMBDA i : IsOk(acq[i]))

\* The three specialist analyzers.
Analyzers == {"technical", "content", "visual_ux"}

\* The report of one site's specialist stage: { url, raw_data_summary,
\* specialist_reports: { technical, content, visual_ux } } when the stage went
\* through, { url, error } when anything in it threw. `findings` are the
\* members of specialist_reports.
agentReport(url, status) ==
  [url |-> url, status |-> status,
   findings |-> IF status = "ok" THEN Analyzers ELSE {}]

\* A faulty variant of allAgentReports: the reports in the opposite order.
allAgentReportsReversed(e) ==
  LET succ == successfulAnalyses(e.acq)
      n == Len(succ)
  IN [a \in 1..n |->
        agentReport(snapshotUrl(e.urlsToProcess[succ[n + 1 - a]]), e.agents[n + 1 - a])]

\* allAgentReports = await Promise.all(agentReportPromises): one report per
\* entry of successfulAnalyses, in its order.
allAgentReports(e) ==
  LET succ == successfulAnalyses(e.acq)
  IN [a \in 1..Len(succ) |->
        agentReport(snapshotUrl(e.urlsToProcess[succ[a]]), e.agents[a])]

successResult(e) ==
  LET succ == successfulAnalyses(e.acq)
  IN [settled |-> TRUE, success |-> TRUE, hasData |-> TRUE, error |-> Undefined,
      competitorsAnalyzed |-> [a \in 1..Len(succ) |-> snapshotUrl(e.urlsToProcess[succ[a]])],
      analysis |-> "report",
      detailedAgentReports |-> allAgentReports(e)]

failureResult(msg) == [NoResult EXCEPT !.settled = TRUE, !.error = msg]

Running(k) == exec[k].pc \in {"acquire", "agents", "synth"}

RECURSIVE Sum(_)
Sum(s) == IF s = <<>> THEN 0 ELSE Head(s) + Sum(Tail(s))

\* The processor invocations in flight in the worker process: those holding
\* their job's lock and those that lost it and have not ended yet.
InFlight == Cardinality({j \in JobKeys : Running(j)}) + Sum(zombies)

\* A faulty variant of hasFreeSlot: the worker fetches jobs without a concurrency limit.
hasFreeSlotAlways(inFlight) == TRUE

\* The worker fetches a job only while fewer than `concurrency` are in flight.
hasFreeSlot(inFlight) == inFlight < Concurrency

\* The worker takes a waiting job and starts the processor on it:
\* deduplication, truncation and the start of every site's acquisition.
Claim(k) ==
  /\ Idle
  /\ jobs[k].state = "waiting"
  /\ hasFreeSlot(InFlight)
  /\ LET urlsToProcess == slice(deduplicateByDomain(jobs[k].data.competitorUrls), SiteCap)
     IN exec' = [exec EXCEPT ![k] =
                   [NoExec EXCEPT !.pc = "acquire", !.urlsToProcess = urlsToProcess,
                                  !.acq = [i \in 1..Len(urlsToProcess) |-> "primary"]]]
  /\ jobs' = [jobs EXCEPT ![k].state = "active"]
  /\ UNCHANGED <<pending, db, resp, first, nSubmits, nCrashes, zombies, lostBrowsers>>

\* The processor that reports progress: job.updateProgress(0), then the scan
\* with (percent) => job.updateProgress(percent) as its callback, in a Worker
\* of default concurrency (1).
WiredClaim(k) ==
  /\ Idle
  /\ jobs[k].state = "waiting"
  /\ InFlight < 1
  /\ LET urlsToProcess == slice(deduplicateByDomain(jobs[k].data.competitorUrls), SiteCap)
     IN exec' = [exec EXCEPT ![k] =
                   [NoExec EXCEPT !.pc = "acquire", !.urlsToProcess = urlsToProcess,
                                  !.acq = [i \in 1..Len(urlsToProcess) |-> "primary"],
                                  !.callback = "updateProgress"]]
  /\ jobs' = [jobs EXCEPT ![k].state = "active", ![k].progress = 0]
  /\ UNCHANGED <<pending, db, resp, first, nSubmits, nCrashes, zombies, lostBrowsers>>

\* One site's acquisition has finished (the finally block of the fan-out).
crawlFinished(k, i, outcome, browsers) ==
  LET e == exec[k]
      percent == crawlPercent(e.completedCrawls + 1, Len(e.urlsToProcess))
  IN /\ exec' = [exec EXCEPT ![k].acq[i] = outcome,
                             ![k].browsers = browsers,
                             ![k].completedCrawls = e.completedCrawls + 1,
                             ![k].percent = percent]
     /\ jobs' = [jobs EXCEPT ![k] = progressCallback(exec[k].callback, @, percent)]

\* analyzeWebsite of a string that is not a URL throws 'Invalid URL format'
\* before any attempt is made.
UrlRejected(k, i) ==
  /\ Idle
  /\ exec[k].pc = "acquire"
  /\ exec[k].acq[i] = "primary"
  /\ ~validUrl(snapshotUrl(exec[k].urlsToProcess[i]))
  /\ crawlFinished(k, i, "failed", exec[k].browsers)
  /\ UNCHANGED <<pending, db, resp, first, nSubmits, nCrashes, zombies, lostBrowsers>>

\* A faulty variant of afterPrimary: a failed primary attempt fails the site,
\* the fallback is not tried.
afterPrimaryNoFallback(ok) == IF ok THEN "ok_primary" ELSE "failed"

\* analyzeWebsite after the primary attempt: its snapshot is returned, or its
\* error is caught and the fallback is started.
afterPrimary(ok) == IF ok THEN "ok_primary" ELSE "fallback"

\* puppeteer.launch has returned the browser of a primary attempt.
BrowserLaunch(k, i) ==
  /\ Idle
  /\ exec[k].pc = "acquire"
  /\ exec[k].acq[i] = "primary"
  /\ validUrl(snapshotUrl(exec[k].urlsToProcess[i]))
  /\ i \notin exec[k].browsers
  /\ exec' = [exec EXCEPT ![k].browsers = @ \cup {i}]
  /\ UNCHANGED <<jobs, pending, db, resp, first, nSubmits, nCrashes, zombies, lostBrowsers>>

\* finally { if (browser) await browser.close(); }
closeBrowser(browsers, i) == browsers \ {i}

\* analyzWithPuppeteer returns or throws; on either way out its browser, if
\* one was launched, is closed first.
PrimaryFinish(k, i, ok) ==
  /\ Idle
  /\ exec[k].pc = "acquire"
  /\ exec[k].acq[i] = "primary"
  /\ validUrl(snapshotUrl(exec[k].urlsToProcess[i]))
  /\ IF afterPrimary(ok) # "fallback"
     THEN crawlFinished(k, i, afterPrimary(ok), closeBrowser(exec[k].browsers, i))
     ELSE /\ exec' = [exec EXCEPT ![k].acq[i] = "fallback",
                                  ![k].browsers = closeBrowser(@, i)]
          /\ UNCHANGED jobs
  /\ UNCHANGED <<pending, db, resp, first, nSubmits, nCrashes, zombies, lostBrowsers>>

\* analyzeWithFallback returns or throws.
FallbackFinish(k, i, ok) ==
  /\ Idle
  /\ exec[k].pc = "acquire"
  /\ exec[k].acq[i] = "fallback"
  /\ crawlFinished(k, i, IF ok THEN "ok_fallback" ELSE "failed", exec[k].browsers)
  /\ UNCHANGED <<pending, db, resp, first, nSubmits, nCrashes, zombies, lostBrowsers>>

\* The processor returns `result`: the job moves to completed with the result
\* as its return value, 'completed' is emitted, and completed jobs older than
\* removeOnComplete.age are removed.
processorReturns(k, result, aged) ==
  /\ jobs' = [j \in JobKeys |->
                IF j = k THEN [progressCallback(exec[k].callback, jobs[k], 100) EXCEPT
                                 !.state = "completed", !.returnvalue = result]
                ELSE IF j \in aged THEN RemovedJob ELSE jobs[j]]
  /\ exec' = [j \in JobKeys |->
                IF j = k THEN [exec[k] EXCEPT
                                 !.pc = "returned", !.percent = 100,
                                 !.synth = IF @ # "running" THEN @
                                           ELSE IF result.success THEN "ok" ELSE "failed"]
                ELSE IF j \in aged THEN NoExec ELSE exec[j]]
  /\ pending' = (pending \ aged) \cup {k}

AgedCompleted(k) == SUBSET {j \in JobKeys \ {k} : jobs[j].state = "completed" /\ j \notin pending}

\* A faulty variant of competitors: the sites whose specialist stage failed
\* are left out.
competitorsWithoutFailed(reports) == SelectSeq(reports, LAMBDA r : r.status = "ok")

\* The competitors handed to runChiefStrategistAgent: { competitors: allAgentReports }.
competitors(reports) == reports

\* runChiefStrategistAgent is called with the reports of the specialist stage.
synthesisStarted(e) ==
  [e EXCEPT !.pc = "synth", !.synth = "running", !.synthCalls = @ + 1,
            !.synthInput = competitors(allAgentReports(e))]

\* A faulty variant of noCompetitorData: the test is left out.
noCompetitorDataNever(succ) == FALSE

\* successfulAnalyses.length === 0
noCompetitorData(succ) == Len(succ) = 0

\* Promise.all(analysisPromises) has resolved: without a snapshot the scan
\* throws; otherwise the specialist stage of every acquired site is started.
AcquisitionSettled(k) ==
  /\ Idle
  /\ exec[k].pc = "acquire"
  /\ \A i \in 1..Len(exec[k].acq) : IsSettled(exec[k].acq[i])
  /\ LET succ == successfulAnalyses(exec[k].acq)
     IN IF noCompetitorData(succ)
        THEN \E aged \in AgedCompleted(k) :
               processorReturns(k, failureResult(TotalFailureMsg), aged)
        ELSE /\ exec' = [exec EXCEPT ![k] =
                          IF Len(succ) = 0 THEN synthesisStarted(@)
                          ELSE [@ EXCEPT !.pc = "agents",
                                         !.agents = [a \in 1..Len(succ) |-> "running"]]]
             /\ UNCHANGED <<jobs, pending>>
  /\ UNCHANGED <<db, resp, first, nSubmits, nCrashes, zombies, lostBrowsers>>

\* The async callback of site a returns its report (ok) or the { url, error }
\* of its catch, and its finally block counts the run; `calls` are the
\* analyzer calls that have returned by then. With the last report
\* Promise.all(agentReportPromises) resolves and the synthesis is started.
agentRunFinished(k, a, ok, calls) ==
  LET e == exec[k]
      percent == agentPercent(e.completedAgentRuns + 1, Len(e.agents))
      agents == [e.agents EXCEPT ![a] = IF ok THEN "ok" ELSE "error"]
      done == \A b \in 1..Len(agents) : agents[b] # "running"
      counted == [e EXCEPT !.agents = agents, !.calls = calls,
                           !.completedAgentRuns = e.completedAgentRuns + 1,
                           !.percent = percent]
  IN /\ exec' = [exec EXCEPT ![k] = IF done THEN synthesisStarted(counted) ELSE counted]
     /\ jobs' = [jobs EXCEPT ![k] = progressCallback(exec[k].callback, @, percent)]

\* The specialist stage of one acquired site has finished, taken as one step:
\* with its reports (ok), or with an error caught into { url, error }. The
\* analyzer calls of the site are not told apart.
AgentsFinish(k, a, ok) ==
  /\ Idle
  /\ exec[k].pc = "agents"
  /\ exec[k].agents[a] = "running"
  /\ agentRunFinished(k, a, ok, exec[k].calls)
  /\ UNCHANGED <<pending, db, resp, first, nSubmits, nCrashes, zombies, lostBrowsers>>

\* data.screenshot of the a-th acquired site is truthy.
hasScreenshot(e, a) ==
  LET i == successfulAnalyses(e.acq)[a]
  IN snapshot(e.urlsToProcess[i], e.acq[i]).screenshot # "null"

HasReturned(e, a, w) == \E ok \in BOOLEAN : <<a, w, ok>> \in e.calls

\* The analyzer calls made for the a-th acquired site so far: technical and
\* content at once, visual_ux once both have returned their reports, for a
\* snapshot with a screenshot.
Launched(e, a) ==
  {"technical", "content"} \cup
  (IF <<a, "technical", TRUE>> \in e.calls /\ <<a, "content", TRUE>> \in e.calls
      /\ hasScreenshot(e, a)
   THEN {"visual_ux"} ELSE {})

\* The analyzer calls of the a-th acquired site that have not returned.
CallsInFlight(e, a) == {w \in Launched(e, a) : ~HasReturned(e, a, w)}

\* One analyzer call of site a returns its report (ok) or throws. While the
\* site's callback awaits it: a throw rejects Promise.all([technical, content])
\* at once, or the await of the visual agent, and the catch returns
\* { url, error }; the second of technical and content starts the visual agent
\* or, without a screenshot, completes the report; the visual agent completes
\* the report. A call that returns after the callback has ended changes nothing.
AnalyzerReturns(k, a, w, ok) ==
  /\ Idle
  /\ exec[k].pc \in {"agents", "synth", "returned"}
  /\ w \in CallsInFlight(exec[k], a)
  /\ LET e == exec[k]
         calls == e.calls \cup {<<a, w, ok>>}
         after == [e EXCEPT !.calls = calls]
     IN IF e.agents[a] # "running"
        THEN /\ exec' = [exec EXCEPT ![k] = after]
             /\ UNCHANGED jobs
        ELSE IF ~ok THEN agentRunFinished(k, a, FALSE, calls)
        ELSE IF CallsInFlight(after, a) = {} THEN agentRunFinished(k, a, TRUE, calls)
        ELSE /\ exec' = [exec EXCEPT ![k] = after]
             /\ UNCHANGED jobs
  /\ UNCHANGED <<pending, db, resp, first, nSubmits, nCrashes, zombies, lostBrowsers>>

\* runChiefStrategistAgent returns the synthesis or throws.
SynthFinish(k, ok) ==
  /\ Idle
  /\ exec[k].pc = "synth"
  /\ \E aged \in AgedCompleted(k) :
       processorReturns(k,
         IF ok THEN successResult(exec[k]) ELSE failureResult(SynthesisFailureMsg), aged)
  /\ UNCHANGED <<db, resp, first, nSubmits, nCrashes, zombies, lostBrowsers>>

\* ------------------------------------------------------------------------
\* worker.on('completed'): the Result Sink write
\* ------------------------------------------------------------------------
DataKeys(data) ==
  {"brandName", "competitorUrls"} \cup (IF data.category = Undefined THEN {} ELSE {"category"})

\* dataToSave = { ...job.data, ...analysisData, success: result.success, createdAt }
\* with analysisData = result.success && result.data ? result.data : result.
dataToSave(job, result) ==
  [keys |-> DataKeys(job.data) \cup {"success", "createdAt"} \cup
            (IF result.success /\ result.hasData
             THEN {"competitorsAnalyzed", "analysis", "detailedAgentReports", "timestamp"}
             ELSE {"error"}),
   brandName |-> job.data.brandName,
   category |-> job.data.category,
   competitorUrls |-> job.data.competitorUrls,
   success |-> result.success,
   competitorsAnalyzed |-> result.competitorsAnalyzed,
   analysis |-> result.analysis,
   detailedAgentReports |-> result.detailedAgentReports,
   error |-> result.error]

\* The listener runs for job k: docRef.set(dataToSave) succeeds, or it throws
\* and the error is logged.
\* A faulty variant of docSet: the write is merged into the document already
\* stored under the id, so fields of an earlier execution survive.
docSetMerge(docs, id, data) ==
  IF id \in DOMAIN docs
  THEN (id :> [data EXCEPT !.keys = @ \cup docs[id].keys]) @@ docs
  ELSE (id :> data) @@ docs

\* docRef.set(dataToSave) on deepScans/<id>: the document is replaced whole.
docSet(docs, id, data) == (id :> data) @@ docs

SaveResult(k, ok) ==
  /\ Idle
  /\ k \in pending
  /\ pending' = pending \ {k}
  /\ db' = IF ok THEN docSet(db, jobs[k].id, dataToSave(jobs[k], jobs[k].returnvalue)) ELSE db
  /\ UNCHANGED <<jobs, exec, resp, first, nSubmits, nCrashes, zombies, lostBrowsers>>

\* ------------------------------------------------------------------------
\* Worker process crash and the queue's stalled-job check
\* ------------------------------------------------------------------------
\* The worker process dies: every processor invocation and every listener
\* that has not run is lost; the jobs it held stay active until their lock expires.
WorkerCrash ==
  /\ Idle
  /\ nCrashes < MaxCrashes
  /\ \E k \in JobKeys : Running(k)
  /\ nCrashes' = nCrashes + 1
  /\ exec' = [k \in JobKeys |-> IF Running(k) THEN NoExec ELSE exec[k]]
  /\ zombies' = [k \in JobKeys |-> 0]
  /\ lostBrowsers' = [k \in JobKeys |-> 0]
  /\ pending' = {}
  /\ UNCHANGED <<jobs, db, resp, first, nSubmits>>

\* The lock of a job expires while its processor invocation is still running
\* (the worker could not renew it within lockDuration: a blocked event loop, a
\* lost Redis connection). The invocation goes on without the lock; whatever
\* it reports to the queue afterwards is refused.
LockExpires(k) ==
  /\ Idle
  /\ nCrashes < MaxCrashes
  /\ Running(k)
  /\ nCrashes' = nCrashes + 1
  /\ exec' = [exec EXCEPT ![k] = NoExec]
  /\ zombies' = [zombies EXCEPT ![k] = @ + 1]
  /\ lostBrowsers' = [lostBrowsers EXCEPT ![k] = @ + Cardinality(exec[k].browsers)]
  /\ UNCHANGED <<jobs, pending, db, resp, first, nSubmits>>

\* A primary attempt of an invocation that lost its lock goes its way out:
\* its browser is closed.
LostBrowserCloses(k) ==
  /\ Idle
  /\ lostBrowsers[k] > 0
  /\ lostBrowsers' = [lostBrowsers EXCEPT ![k] = @ - 1]
  /\ UNCHANGED <<jobs, exec, pending, db, resp, first, nSubmits, nCrashes, zombies>>

\* An invocation that lost its lock ends, every acquisition of its own
\* settled: moveToFinished is refused (missing lock or lock mismatch), the
\* queue is left as it is and no event is emitted.
ZombieEnds(k) ==
  /\ Idle
  /\ zombies[k] > 0
  /\ zombies[k] > 1 \/ lostBrowsers[k] = 0
  /\ zombies' = [zombies EXCEPT ![k] = @ - 1]
  /\ UNCHANGED <<jobs, exec, pending, db, resp, first, nSubmits, nCrashes, lostBrowsers>>

\* A faulty variant of StalledCheck: the check finds the job and leaves it as it is.
StalledCheckSkipped(k) ==
  /\ Idle
  /\ jobs[k].state = "active"
  /\ exec[k].pc = "idle"
  /\ UNCHANGED vars

\* The lock of an active job nobody processes has expired: the job goes back to
\* waiting, or fails once it has stalled more than maxStalledCount times.
StalledCheck(k) ==
  /\ Idle
  /\ jobs[k].state = "active"
  /\ exec[k].pc = "idle"
  /\ jobs' = [jobs EXCEPT ![k] =
       IF jobs[k].stalledCount + 1 > MaxStalledCount
       THEN [@ EXCEPT !.state = "failed", !.failedReason = StalledMsg,
                      !.stalledCount = jobs[k].stalledCount + 1]
       ELSE [@ EXCEPT !.state = "waiting", !.stalledCount = jobs[k].stalledCount + 1]]
  /\ UNCHANGED <<exec, pending, db, resp, first, nSubmits, nCrashes, zombies, lostBrowsers>>

\* ------------------------------------------------------------------------
\* GET /analysis-status/:jobId
\* ------------------------------------------------------------------------
\* restructuredData: undefined members are dropped by JSON serialization.
restructuredData(doc) ==
  [doc EXCEPT !.keys = (doc.keys \cap {"analysis", "detailedAgentReports", "competitorsAnalyzed"})
                       \cup {"metadata"}]

\* A faulty variant of statusResponse: the failure reason is attached in every state.
statusResponseErrorAlways(job, doc) ==
  [NoResp EXCEPT !.op = "poll", !.status = 200, !.jobId = job.id, !.state = job.state,
                 !.progress = job.progress,
                 !.keys = {"state", "progress", "error"} \cup
                          (IF job.state = "completed" THEN {"result"} ELSE {}),
                 !.result = IF job.state = "completed" THEN restructuredData(doc) ELSE NoDoc,
                 !.error = job.failedReason]

\* The body of the 200 response for a job found in the queue; doc is the
\* job's document in deepScans.
statusResponse(job, doc) ==
  LET base == [NoResp EXCEPT !.op = "poll", !.status = 200, !.jobId = job.id,
                             !.state = job.state, !.progress = job.progress,
                             !.keys = {"state", "progress"}]
  IN IF job.state = "completed"
     THEN [base EXCEPT !.keys = @ \cup {"result"}, !.result = restructuredData(doc)]
     ELSE IF job.state = "failed"
     THEN [base EXCEPT !.keys = @ \cup (IF job.failedReason = Undefined THEN {} ELSE {"error"}),
                       !.error = job.failedReason]
     ELSE base

NotFound(jobId) == [NoResp EXCEPT !.op = "poll", !.status = 404, !.jobId = jobId, !.keys = {"message"}]

Poll(jobId) ==
  /\ Idle
  /\ LET found == getJob(jobs, jobId)
     IN IF found = {} THEN resp' = NotFound(jobId)
        ELSE \E k \in found :
               IF jobs[k].state = "completed" /\ jobId \notin DOMAIN db
               THEN resp' = NotFound(jobId)
               ELSE resp' = statusResponse(jobs[k], IF jobId \in DOMAIN db THEN db[jobId] ELSE NoDoc)
  /\ UNCHANGED <<jobs, exec, pending, db, first, nSubmits, nCrashes, zombies, lostBrowsers>>

PollIds == {jobs[k].id : k \in JobKeys} \cup {NoId} \cup DOMAIN db

\* ------------------------------------------------------------------------
\* Specification of the running system
\* ------------------------------------------------------------------------
\* res.json(...) has been sent: no response is in flight any more.
Respond ==
  /\ resp.op # "none"
  /\ resp' = NoResp
  /\ first' = NoFirst
  /\ UNCHANGED <<jobs, exec, pending, db, nSubmits, nCrashes, zombies, lostBrowsers>>

Next ==
  \/ SubmitAny
  \/ \E k \in JobKeys : Claim(k)
  \/ \E k \in JobKeys : \E i \in 1..Len(exec[k].acq) : \E ok \in BOOLEAN : PrimaryFinish(k, i, ok)
  \/ \E k \in JobKeys : \E i \in 1..Len(exec[k].acq) : \E ok \in BOOLEAN : FallbackFinish(k, i, ok)
  \/ \E k \in JobKeys : AcquisitionSettled(k)
  \/ \E k \in JobKeys : \E a \in 1..Len(exec[k].agents) : \E ok \in BOOLEAN : AgentsFinish(k, a, ok)
  \/ \E k \in JobKeys : \E ok \in BOOLEAN : SynthFinish(k, ok)
  \/ \E k \in JobKeys : \E ok \in BOOLEAN : SaveResult(k, ok)
  \/ WorkerCrash
  \/ \E k \in JobKeys : StalledCheck(k)
  \/ \E jobId \in PollIds : Poll(jobId)
  \/ Respond

Spec == Init /\ [][Next]_vars

\* ------------------------------------------------------------------------
\* Specification of resubmission: a request is submitted, then submitted
\* again with its competitorUrls in any order
\* ------------------------------------------------------------------------
Rearrangements(s) ==
  {[i \in 1..Len(s) |-> s[f[i]]] : f \in Permutations(1..Len(s))}

FpSubmitFirst ==
  /\ nSubmits = 0
  /\ \E req \in FpRequests :
       /\ Submit(req)
       /\ first' = [status |-> resp'.status, jobId |-> resp'.jobId, req |-> req, again |-> <<>>]

FpSubmitAgain ==
  /\ first.status = 202
  /\ \E p \in Rearrangements(first.req.competitorUrls) :
       /\ Submit([first.req EXCEPT !.competitorUrls = p])
       /\ first' = [first EXCEPT !.again = p]

FpNext == FpSubmitFirst \/ FpSubmitAgain

SpecFingerprint == Init /\ [][FpNext]_vars

\* ------------------------------------------------------------------------
\* Specification of resubmission with the same set of URLs: a request is
\* submitted, then submitted again with a list of the same distinct URLs, in
\* any order and with any entry repeated
\* ------------------------------------------------------------------------
SetSubmitAgain ==
  /\ first.status = 202
  /\ \E p \in SeqsUpTo(FpUrls, MaxFpUrls) :
       /\ Range(p) = Range(first.req.competitorUrls)
       /\ Submit([first.req EXCEPT !.competitorUrls = p])
       /\ first' = [first EXCEPT !.again = p]

SetNext == FpSubmitFirst \/ SetSubmitAgain

SpecUrlSet == Init /\ [][SetNext]_vars

\* ------------------------------------------------------------------------
\* Specification of deduplication and truncation: one request is submitted
\* and the worker starts its job
\* ------------------------------------------------------------------------
\* Spellings of one site (no scheme, another scheme, a path), a second site
\* and a string without a registrable domain.
VariantUrls == {"a.com", "http://a.com/x", "https://a.com", "https://b.com", "localhost"}

\* Six sites and a second spelling of the first.
CapUrls ==
  {"a.com", "http://a.com/x", "https://b.com", "https://c.com", "https://d.com",
   "https://e.com", "https://f.com"}

\* The lists submitted: every list of spellings, and every list of the seven
\* CapUrls without a repeated entry.
DedupLists ==
  SeqsUpTo(VariantUrls, MaxDedupUrls) \cup
  {s \in SeqsUpTo(CapUrls, MaxCapUrls) : \A i, j \in 1..Len(s) : s[i] = s[j] => i = j}

DedupRequests ==
  [brandName : {"Acme"}, category : {Undefined}, competitorUrls : DedupLists,
   urlsIsArray : {TRUE}]

DedupSubmit ==
  /\ Idle
  /\ nSubmits = 0
  /\ \E req \in DedupRequests : deepScanHandler(req)
  /\ UNCHANGED first

DedupNext ==
  \/ DedupSubmit
  \/ Respond
  \/ \E k \in JobKeys : Claim(k)

SpecDedup == Init /\ [][DedupNext]_vars

\* ------------------------------------------------------------------------
\* Specification of the worker under load: callers submit requests of
\* different brands, one after the other, and the worker takes the jobs
\* ------------------------------------------------------------------------
PoolBrands == <<"Brand1", "Brand2", "Brand3", "Brand4", "Brand5", "Brand6", "Brand7", "Brand8">>

\* The n-th request: its only URL has no registrable domain, so its job has
\* no site to acquire and its processor returns as soon as it has started.
PoolRequest(n) ==
  [brandName |-> PoolBrands[n], category |-> Undefined, competitorUrls |-> <<"localhost">>,
   urlsIsArray |-> TRUE]

PoolSubmit ==
  /\ Idle
  /\ nSubmits < MaxPoolJobs
  /\ deepScanHandler(PoolRequest(nSubmits + 1))
  /\ UNCHANGED first

PoolNext ==
  \/ PoolSubmit
  \/ Respond
  \/ \E k \in JobKeys : Claim(k)
  \/ \E k \in JobKeys : AcquisitionSettled(k)

SpecPool == Init /\ [][PoolNext]_vars

\* ------------------------------------------------------------------------
\* Specification of worker crashes under load: the jobs have two sites each,
\* whose acquisition is still going on, when the worker process dies and is
\* started again
\* ------------------------------------------------------------------------
LongRequest(n) == [PoolRequest(n) EXCEPT !.competitorUrls = <<"a.com", "https://b.com">>]

CrashSubmit ==
  /\ Idle
  /\ nSubmits < MaxPoolJobs
  /\ deepScanHandler(LongRequest(nSubmits + 1))
  /\ UNCHANGED first

CrashNext ==
  \/ CrashSubmit
  \/ Respond
  \/ \E k \in JobKeys : Claim(k)
  \/ WorkerCrash
  \/ \E k \in JobKeys : StalledCheck(k)

SpecCrash == Init /\ [][CrashNext]_vars

\* ------------------------------------------------------------------------
\* Specification of expired locks: the jobs have two sites each, whose
\* acquisition is still going on, when the worker process fails to renew a lock
\* ------------------------------------------------------------------------
LockSubmit ==
  /\ Idle
  /\ nSubmits < MaxSubmits
  /\ deepScanHandler(LongRequest(nSubmits + 1))
  /\ UNCHANGED first

LockNext ==
  \/ LockSubmit
  \/ Respond
  \/ \E k \in JobKeys : Claim(k)
  \/ \E k \in JobKeys : LockExpires(k)
  \/ \E k \in JobKeys : ZombieEnds(k)
  \/ \E k \in JobKeys : StalledCheck(k)

SpecLock == Init /\ [][LockNext]_vars

\* ------------------------------------------------------------------------
\* Specification of recovery: jobs of two sites each are processed while the
\* worker process may die and be started again. The queue and the restarted
\* worker keep running: a pending response is sent, a waiting job is claimed,
\* every external call of the pipeline returns or times out, and the stalled
\* check runs on its timer.
\* ------------------------------------------------------------------------
LiveSubmit ==
  /\ Idle
  /\ nSubmits < MaxLiveJobs
  /\ deepScanHandler(LongRequest(nSubmits + 1))
  /\ UNCHANGED first

LiveClaim == \E k \in JobKeys : Claim(k)
LivePrimary ==
  \E k \in JobKeys : \E i \in 1..Len(exec[k].acq) : \E ok \in BOOLEAN : PrimaryFinish(k, i, ok)
LiveFallback ==
  \E k \in JobKeys : \E i \in 1..Len(exec[k].acq) : \E ok \in BOOLEAN : FallbackFinish(k, i, ok)
LiveSettled == \E k \in JobKeys : AcquisitionSettled(k)
LiveAgents ==
  \E k \in JobKeys : \E a \in 1..Len(exec[k].agents) : \E ok \in BOOLEAN : AgentsFinish(k, a, ok)
LiveSynth == \E k \in JobKeys : \E ok \in BOOLEAN : SynthFinish(k, ok)
LiveStalled == \E k \in JobKeys : StalledCheck(k)

LiveNext ==
  \/ LiveSubmit
  \/ Respond
  \/ LiveClaim
  \/ LivePrimary
  \/ LiveFallback
  \/ LiveSettled
  \/ LiveAgents
  \/ LiveSynth
  \/ WorkerCrash
  \/ LiveStalled

LiveFairness ==
  /\ WF_vars(Respond)
  /\ WF_vars(LiveClaim)
  /\ WF_vars(LivePrimary)
  /\ WF_vars(LiveFallback)
  /\ WF_vars(LiveSettled)
  /\ WF_vars(LiveAgents)
  /\ WF_vars(LiveSynth)
  /\ WF_vars(LiveStalled)

SpecLive == Init /\ [][LiveNext]_vars /\ LiveFairness

\* ------------------------------------------------------------------------
\* Properties
\* ------------------------------------------------------------------------
\* The Result Sink holds a FinalReport for jobId: a document carrying the
\* synthesized analysis.
HasFinalReport(jobId) == jobId \in DOMAIN db /\ "analysis" \in db[jobId].keys

\* The processor invocation of job k has ended.
Returned(k) == exec[k].pc = "returned"
TotalFailure(k) == Returned(k) /\ \A i \in 1..Len(exec[k].acq) : exec[k].acq[i] = "failed"
SynthesisFailure(k) == Returned(k) /\ exec[k].synth = "failed"

\* C1: a valid request submitted again with its competitorUrls in any order
\* (the same order included) is answered with the jobId of the first submission.
C1_FingerprintDeterminism ==
  (first.status = 202 /\ nSubmits > 1) =>
    /\ resp.op = "submit" /\ resp.status = 202
    /\ resp.jobId = first.jobId

C1_Witness ==
  /\ first.status = 202 /\ nSubmits > 1
  /\ Len(first.again) = 3
  /\ first.again # first.req.competitorUrls
  /\ first.again # sortedUrls(first.again)
  /\ first.req.competitorUrls # sortedUrls(first.again)
  /\ resp.jobId = first.jobId

\* C2: no two jobs of the queue share a fingerprint, and a Submit whose
\* fingerprint is that of a job in the queue (waiting, active or completed)
\* adds no job, starts no processor and answers with that job's id.
UniqueJobIds ==
  \A k1, k2 \in JobKeys :
    (jobs[k1].state # "removed" /\ jobs[k2].state # "removed" /\ jobs[k1].id = jobs[k2].id)
      => k1 = k2

ResubmitIsNoOp ==
  (nSubmits' = nSubmits + 1 /\ resp'.status = 202 /\ getJob(jobs, resp'.jobId) # {})
    => /\ jobs' = jobs /\ exec' = exec /\ pending' = pending
       /\ \E k \in getJob(jobs, resp'.jobId) : jobs[k].id = resp'.jobId

C2_OneJobPerFingerprint == [](UniqueJobIds) /\ [][ResubmitIsNoOp]_vars

C2_Witness ==
  /\ resp.op = "submit" /\ resp.status = 202 /\ nSubmits = 2
  /\ Len(jobs) = 1 /\ jobs[1].id = resp.jobId /\ jobs[1].state = "active"

\* C3: a job all of whose acquisitions failed (or that had no site left after
\* deduplication) is in state failed with a reason, and has no FinalReport.
C3_TotalFailureFailsJob ==
  \A k \in JobKeys :
    TotalFailure(k) =>
      /\ jobs[k].state = "failed"
      /\ jobs[k].failedReason # Undefined
      /\ ~HasFinalReport(jobs[k].id)

\* C4: a job whose synthesis call failed is in state failed.
C4_SynthesisFailureFailsJob ==
  \A k \in JobKeys : SynthesisFailure(k) => jobs[k].state = "failed"

\* C5: a job with at least one acquired site and a successful synthesis is
\* completed with a successful report whose competitorsAnalyzed lists exactly
\* the acquired sites.
C5_PartialSuccessCompletes ==
  \A k \in JobKeys :
    (Returned(k) /\ exec[k].synth = "ok") =>
      LET e == exec[k]
          okSites == {i \in 1..Len(e.acq) : IsOk(e.acq[i])}
          rv == jobs[k].returnvalue
      IN /\ jobs[k].state = "completed"
         /\ rv.success /\ rv.hasData
         /\ okSites # {}
         /\ Len(rv.competitorsAnalyzed) = Cardinality(okSites)
         /\ Range(rv.competitorsAnalyzed) = {snapshotUrl(e.urlsToProcess[i]) : i \in okSites}

C5_Witness ==
  \E k \in JobKeys :
    /\ Returned(k) /\ exec[k].synth = "ok" /\ jobs[k].state = "completed"
    /\ exec[k].acq = <<"failed", "ok_fallback">>
    /\ jobs[k].returnvalue.competitorsAnalyzed = <<"https://b.com">>

\* C6: a FinalReport exists for a job exactly when the job is completed.
C6_ReportIffCompleted ==
  \A k \in JobKeys :
    jobs[k].state # "removed" =>
      (HasFinalReport(jobs[k].id) <=> jobs[k].state = "completed")

\* C7: every document of the Result Sink has success = true, and no document
\* is written for a job that failed as a whole.
C7_SinkOnlyOnSuccess ==
  /\ \A jobId \in DOMAIN db : db[jobId].success
  /\ \A k \in JobKeys :
       (TotalFailure(k) \/ SynthesisFailure(k)) => jobs[k].id \notin DOMAIN db

\* C8: a Poll response carries result only with state completed, error only
\* with state failed, and never both.
C8_PollResultErrorExclusive ==
  resp.op = "poll" =>
    /\ "result" \in resp.keys => resp.state = "completed"
    /\ "error" \in resp.keys => resp.state = "failed"
    /\ ~({"result", "error"} \subseteq resp.keys)

C8_Witness ==
  /\ resp.op = "poll" /\ resp.status = 200
  /\ resp.state = "failed" /\ "error" \in resp.keys /\ resp.error = StalledMsg

\* C9: a Poll of a job that failed as a whole reports state failed with a
\* reason, and a Poll that reports completed carries the analysis and the
\* list of competitors analyzed.
C9_PollDistinguishesOutcome ==
  resp.op = "poll" =>
    /\ \A k \in getJob(jobs, resp.jobId) :
         (TotalFailure(k) \/ SynthesisFailure(k)) =>
           /\ resp.status = 200 /\ resp.state = "failed"
           /\ "error" \in resp.keys /\ resp.error # Undefined
    /\ (resp.status = 200 /\ resp.state = "completed") =>
         {"analysis", "competitorsAnalyzed"} \subseteq resp.result.keys

\* C10: the progress Poll reads is an integer in 0..100, never decreases
\* during an execution of the job, and is 100 once the job is completed or failed.
ProgressReading ==
  (resp.op = "poll" /\ resp.status = 200) =>
    /\ resp.progress \in 0..100
    /\ resp.state \in {"completed", "failed"} => resp.progress = 100

ProgressNonDecreasing ==
  \A k \in JobKeys :
    (jobs[k].state = "active" /\ jobs'[k].state \in {"active", "completed", "failed"})
      => jobs'[k].progress >= jobs[k].progress

C10_ProgressMonotoneEndsAt100 == [](ProgressReading) /\ [][ProgressNonDecreasing]_vars

\* C11: a Submit whose brandName is missing or empty, or whose competitorUrls
\* is not an array or is an empty array, is answered with the validation error
\* (400) and leaves the queue, the processors and the Result Sink as they were.
InvalidRequest(req) ==
  \/ req.brandName = Undefined \/ req.brandName = ""
  \/ ~req.urlsIsArray
  \/ req.competitorUrls = <<>>

RejectedUnchanged ==
  (nSubmits' = nSubmits + 1 /\ InvalidRequest(first'.req))
    => /\ resp'.op = "submit" /\ resp'.status = 400 /\ resp'.jobId = NoId
       /\ jobs' = jobs /\ exec' = exec /\ pending' = pending /\ db' = db

C11_InvalidSubmitRejected == [][RejectedUnchanged]_vars

C11_Witness ==
  /\ resp.op = "submit" /\ resp.status = 400
  /\ first.req.brandName = "Acme" /\ ~first.req.urlsIsArray
  /\ first.req.competitorUrls = <<"a.com", "https://b.com">>
  /\ Len(jobs) = 1 /\ jobs[1].state = "active"

\* The root domains of a URL list, and the positions holding the first URL of
\* each root domain.
Domains(urls) == {getDomain(urls[i]) : i \in 1..Len(urls)} \ {NullDomain}

FirstOfDomain(urls) ==
  {i \in 1..Len(urls) :
     /\ getDomain(urls[i]) # NullDomain
     /\ \A j \in 1..(i - 1) : getDomain(urls[j]) # getDomain(urls[i])}

\* The n-th smallest member of a set of positions.
NthOf(S, n) == CHOOSE i \in S : Cardinality({j \in S : j < i}) = n - 1

Min(a, b) == IF a < b THEN a ELSE b

\* C12: the worker starts the acquisition of at most 5 sites; for a list with
\* d distinct root domains it starts exactly min(d, 5), and they are the first
\* min(d, 5) entries of the deduplicated list, in that order.
C12_AtMostFiveSites ==
  \A k \in JobKeys :
    exec[k].pc = "acquire" =>
      LET urls == jobs[k].data.competitorUrls
          n == Min(Cardinality(Domains(urls)), 5)
      IN /\ Len(exec[k].acq) <= 5
         /\ Len(exec[k].acq) = n
         /\ Len(exec[k].urlsToProcess) = n
         /\ \A i \in 1..n : exec[k].acq[i] = "primary"
         /\ exec[k].urlsToProcess = SubSeq(deduplicateByDomain(urls), 1, n)

C12_Witness ==
  \E k \in JobKeys :
    /\ exec[k].pc = "acquire"
    /\ Cardinality(Domains(jobs[k].data.competitorUrls)) = 6
    /\ Len(exec[k].acq) = 5
    /\ exec[k].urlsToProcess =
         <<"https://f.com", "https://e.com", "https://d.com", "https://c.com", "https://b.com">>

\* C13: the deduplicated list of a job's competitorUrls has one URL per root
\* domain of the list, namely the first URL of that domain, in the order of
\* the list; URLs without a registrable domain are left out, and spellings of
\* one site (scheme, path, missing scheme) collapse to the first of them.
C13_DedupFirstPerDomain ==
  \A k \in JobKeys :
    jobs[k].state # "removed" =>
      LET urls == jobs[k].data.competitorUrls
          out == deduplicateByDomain(urls)
          firsts == FirstOfDomain(urls)
      IN /\ Len(out) = Cardinality(Domains(urls))
         /\ Len(out) = Cardinality(firsts)
         /\ \A i, j \in 1..Len(out) : getDomain(out[i]) = getDomain(out[j]) => i = j
         /\ \A n \in 1..Len(out) : out[n] = urls[NthOf(firsts, n)]
         /\ \A n \in 1..Len(out) : snapshotUrl(out[n]) = snapshotUrl(urls[NthOf(firsts, n)])
         /\ Cardinality(Range(out) \cap {"a.com", "http://a.com/x", "https://a.com"}) <= 1

C13_Witness ==
  \E k \in JobKeys :
    /\ jobs[k].data.competitorUrls = <<"localhost", "http://a.com/x", "https://b.com", "a.com">>
    /\ exec[k].pc = "acquire"
    /\ exec[k].urlsToProcess = <<"http://a.com/x", "https://b.com">>

\* The processor invocations running job k: the one holding its lock, if any,
\* and those that lost it.
Invocations(k) == (IF Running(k) THEN 1 ELSE 0) + zombies[k]

\* C14: no job is being executed by two processor invocations at the same
\* time, lock expiry and reclaim included.
C14_NoDoubleExecution == \A k \in JobKeys : Invocations(k) <= 1

\* The jobs in state active.
ActiveJobs == {k \in JobKeys : jobs[k].state = "active"}

\* C15 (as claimed): the number of jobs in state active never exceeds the
\* worker's concurrency.
C15_ActiveWithinConcurrency == Cardinality(ActiveJobs) <= 4

\* C15 (amended): the number of processor invocations in flight in the worker
\* never exceeds the worker's concurrency; jobs left in state active by a
\* crashed worker are counted by no worker until the stalled check has moved them.
C15_InFlightWithinConcurrency == InFlight <= 4

C15_Witness ==
  /\ InFlight = 4
  /\ \E k \in JobKeys : jobs[k].state = "waiting"
  /\ Cardinality(ActiveJobs) > 4

\* C16: a failed job is never executed again on the queue's own account, and
\* a caller's Submit of the request of a failed job makes the pipeline run
\* again: once it is answered, a job of that request is waiting for a worker.
FailedStaysFailed ==
  \A k \in JobKeys :
    jobs[k].state = "failed" => (jobs'[k].state = "failed" /\ exec'[k] = exec[k])

ResubmitAfterFailureRuns ==
  (/\ nSubmits' = nSubmits + 1
   /\ resp'.status = 202
   /\ \E k \in getJob(jobs, resp'.jobId) : jobs[k].state = "failed")
    => \E k \in getJob(jobs', resp'.jobId) : jobs'[k].state = "waiting"

C16_FailedRetriedOnlyByResubmit ==
  [][FailedStaysFailed /\ ResubmitAfterFailureRuns]_vars

\* C17: a valid request submitted again with a list of the same distinct
\* URLs (another order, entries repeated) is answered with the jobId of the
\* first submission: the fingerprint depends on the set of URLs only.
C17_FingerprintOfUrlSet ==
  (/\ first.status = 202 /\ nSubmits > 1
   /\ Range(first.again) = Range(first.req.competitorUrls))
    => /\ resp.op = "submit" /\ resp.status = 202
       /\ resp.jobId = first.jobId

\* C18: Submit answers with the jobId in the step that enqueues the job,
\* without a pipeline step: the job it created is waiting, unprocessed, when
\* the response is produced, the invocations of the other jobs are where they
\* were, and no worker has to claim anything for the response to be sent.
SubmitAnswersAtOnce ==
  (nSubmits' = nSubmits + 1 /\ ~InvalidRequest(first'.req))
    => /\ resp'.op = "submit" /\ resp'.status = 202
       /\ getJob(jobs', resp'.jobId) # {}
       /\ \A k \in JobKeys : exec'[k] = exec[k] /\ jobs'[k] = jobs[k]
       /\ pending' = pending /\ db' = db

NewJobIsQueued ==
  (nSubmits' = nSubmits + 1 /\ Len(jobs') > Len(jobs))
    => LET k == Len(jobs')
       IN /\ k = Len(jobs) + 1
          /\ resp'.status = 202 /\ resp'.jobId = jobs'[k].id
          /\ jobs'[k].state = "waiting"
          /\ jobs'[k].returnvalue = NoResult
          /\ exec'[k] = NoExec

StartedJobs == {k \in JobKeys : jobs[k].state \in {"active", "completed"} \/ jobs[k].stalledCount > 0}

\* C19: within a window of the limiter's duration the worker starts no more
\* jobs than the limiter's count. No step of the worker waits for time to
\* pass, and a job without a site to acquire returns at once: a behaviour
\* without a crash or an expired lock fits in one window.
C19_StartsWithinRateLimit ==
  (nCrashes = 0 /\ \A k \in JobKeys : Len(exec[k].urlsToProcess) = 0)
    => Cardinality(StartedJobs) <= LimiterMax

\* Job k is active and its worker has died: nothing processes it.
Lost(k) == k \in JobKeys /\ jobs[k].state = "active" /\ exec[k].pc = "idle"
Terminal(k) == k \in JobKeys /\ jobs[k].state \in {"completed", "failed"}

\* C20 (as claimed): a job whose worker crashed while it was active is
\* eventually claimed and processed again, and eventually reaches a terminal state.
C20_CrashedJobReclaimed ==
  \A k \in 1..(MaxLiveJobs + 1) :
    /\ Lost(k) ~> (k \in JobKeys /\ Running(k))
    /\ Lost(k) ~> Terminal(k)

\* C20 (amended): a job whose worker crashed while it was active eventually
\* reaches a terminal state: when it had not stalled before, it is made
\* available again and claimed; when it had, it is moved to failed.
C20_CrashedJobRecovered ==
  \A k \in 1..(MaxLiveJobs + 1) :
    /\ (Lost(k) /\ jobs[k].stalledCount = 0)
         ~> (k \in JobKeys /\ Running(k) /\ jobs[k].stalledCount = 1)
    /\ (Lost(k) /\ jobs[k].stalledCount >= MaxStalledCount)
         ~> (k \in JobKeys /\ jobs[k].state = "failed" /\ jobs[k].failedReason = StalledMsg)
    /\ Lost(k) ~> Terminal(k)

C20_Witness ==
  \E k \in JobKeys :
    /\ jobs[k].stalledCount = 1
    /\ jobs[k].state = "completed"
    /\ Returned(k)

\* ------------------------------------------------------------------------
\* Specification of acquisition: one job is submitted and executed up to the
\* end of its acquisition stage, browsers included, while the lock of the job
\* may expire under a running invocation
\* ------------------------------------------------------------------------
\* Two sites and a string with a registrable domain that is not a URL.
AcquireUrls == {"a.com", "https://b.com", "https://c.com:99999"}

AcquireRequests ==
  [brandName : {"Acme"}, category : {Undefined},
   competitorUrls : SeqsUpTo(AcquireUrls, MaxAcquireUrls) \ {<<>>}, urlsIsArray : {TRUE}]

AcquireSubmit ==
  /\ Idle
  /\ nSubmits = 0
  /\ \E req \in AcquireRequests : deepScanHandler(req)
  /\ UNCHANGED first

\* analyzWithPuppeteer returns only with a browser launched; it throws with
\* or without one.
AcquirePrimary(k, i, ok) ==
  /\ ok => i \in exec[k].browsers
  /\ PrimaryFinish(k, i, ok)

AcquireNext ==
  \/ AcquireSubmit
  \/ Respond
  \/ \E k \in JobKeys : Claim(k)
  \/ \E k \in JobKeys : \E i \in 1..Len(exec[k].acq) : UrlRejected(k, i)
  \/ \E k \in JobKeys : \E i \in 1..Len(exec[k].acq) : BrowserLaunch(k, i)
  \/ \E k \in JobKeys : \E i \in 1..Len(exec[k].acq) : \E ok \in BOOLEAN : AcquirePrimary(k, i, ok)
  \/ \E k \in JobKeys : \E i \in 1..Len(exec[k].acq) : \E ok \in BOOLEAN : FallbackFinish(k, i, ok)
  \/ \E k \in JobKeys : AcquisitionSettled(k)
  \/ \E k \in JobKeys : LockExpires(k)
  \/ \E k \in JobKeys : LostBrowserCloses(k)
  \/ \E k \in JobKeys : ZombieEnds(k)
  \/ \E k \in JobKeys : StalledCheck(k)

SpecAcquire == Init /\ [][AcquireNext]_vars

\* The sites of job k whose acquisition goes on from this state to the next
\* within one processor invocation.
SameAcquisition(k) ==
  IF k \in DOMAIN exec' /\ exec[k].pc = "acquire" /\ exec'[k].pc # "idle"
  THEN 1..Len(exec[k].acq) ELSE {}

\* One step of a site's acquisition as claimed: Primary ends in Done(primary)
\* or Fallback, Fallback ends in Done(fallback) or Failed, nothing else changes.
ClaimedAcquisitionStep(from, to) ==
  \/ from = to
  \/ from = "primary" /\ to \in {"ok_primary", "fallback"}
  \/ from = "fallback" /\ to \in {"ok_fallback", "failed"}

SnapshotTagged ==
  \A k \in JobKeys : \A i \in 1..Len(exec[k].acq) :
    IsOk(exec[k].acq[i]) =>
      LET data == snapshot(exec[k].urlsToProcess[i], exec[k].acq[i])
      IN /\ (data.analysisMethod = "FALLBACK_SUCCESS") <=> (exec[k].acq[i] = "ok_fallback")
         /\ (data.screenshot = "null") <=> (exec[k].acq[i] = "ok_fallback")
         /\ (data.performance = Undefined) <=> (exec[k].acq[i] = "ok_fallback")

C22_NoBrowserLeftOpen ==
  \A k \in JobKeys :
    /\ \A i \in 1..Len(exec[k].acq) : exec[k].acq[i] # "primary" => i \notin exec[k].browsers
    /\ jobs[k].state \in {"completed", "failed"} => exec[k].browsers = {} /\ lostBrowsers[k] = 0

\* ------------------------------------------------------------------------
\* Specification of the specialist stage: one job of up to MaxAgentSites sites
\* is executed, every analyzer call returning by itself
\* ------------------------------------------------------------------------
AgentSites == <<"a.com", "https://b.com", "https://d.com", "https://e.com">>

AgentsRequest(n) ==
  [brandName |-> "Acme", category |-> Undefined,
   competitorUrls |-> SubSeq(AgentSites, 1, n), urlsIsArray |-> TRUE]

AgentsSubmit ==
  /\ Idle
  /\ nSubmits = 0
  /\ \E n \in 1..MaxAgentSites : deepScanHandler(AgentsRequest(n))
  /\ UNCHANGED first

AgentsNext ==
  \/ AgentsSubmit
  \/ Respond
  \/ \E k \in JobKeys : Claim(k)
  \/ \E k \in JobKeys : \E i \in 1..Len(exec[k].acq) : \E ok \in BOOLEAN : PrimaryFinish(k, i, ok)
  \/ \E k \in JobKeys : \E i \in 1..Len(exec[k].acq) : \E ok \in BOOLEAN : FallbackFinish(k, i, ok)
  \/ \E k \in JobKeys : AcquisitionSettled(k)
  \/ \E k \in JobKeys : \E a \in 1..Len(exec[k].agents) : \E w \in Analyzers : \E ok \in BOOLEAN :
       AnalyzerReturns(k, a, w, ok)
  \/ \E k \in JobKeys : \E ok \in BOOLEAN : SynthFinish(k, ok)

SpecAgents == Init /\ [][AgentsNext]_vars

\* The report of the a-th acquired site of job k has been produced.
ReportProduced(k, a) == exec[k].agents[a] # "running"

\* C23: when an analyzer of a site has failed and another has succeeded, the
\* site's report still holds the findings of every analyzer that succeeded.
C23_FindingsOfSucceededKept ==
  \A k \in JobKeys : \A a \in 1..Len(exec[k].agents) :
    ReportProduced(k, a) =>
      \A w \in Analyzers :
        <<a, w, TRUE>> \in exec[k].calls => w \in allAgentReports(exec[k])[a].findings

\* C24: the report of a site is never produced, and the site never counted as
\* finished, while an analyzer call made for the site is still in flight.
C24_NoReportWhileAnalyzerInFlight ==
  \A k \in JobKeys : \A a \in 1..Len(exec[k].agents) :
    ReportProduced(k, a) => CallsInFlight(exec[k], a) = {}

\* The synthesis of job k has been called.
SynthesisInvoked(k) == exec[k].synthCalls > 0

\* C25: a failure in the specialist stage of one site leaves the stages of
\* the other sites alone and does not fail the job: a site's report is an
\* error only when one of its own analyzer calls threw, the synthesis is called
\* with one entry per acquired site, in their order, and the scan is
\* unsuccessful only when no site was acquired or the synthesis failed.
C25_SiteFailureIsolated ==
  \A k \in JobKeys :
    LET e == exec[k]
        succ == successfulAnalyses(e.acq)
    IN /\ \A a \in 1..Len(e.agents) :
            e.agents[a] = "error" => \E w \in Analyzers : <<a, w, FALSE>> \in e.calls
       /\ SynthesisInvoked(k) =>
            /\ Len(e.synthInput) = Len(succ)
            /\ \A a \in 1..Len(succ) :
                 /\ e.synthInput[a].url = snapshotUrl(e.urlsToProcess[succ[a]])
                 /\ e.synthInput[a].status = e.agents[a]
                 /\ e.agents[a] \in {"ok", "error"}
       /\ Returned(k) =>
            /\ jobs[k].state = "completed"
            /\ ~jobs[k].returnvalue.success => TotalFailure(k) \/ SynthesisFailure(k)

\* A scan has returned its report although the specialist stage of one site
\* failed next to a site whose stage went through.
C25_Witness ==
  \E k \in JobKeys :
    /\ Returned(k) /\ jobs[k].returnvalue.success
    /\ \E a, b \in 1..Len(exec[k].agents) :
         exec[k].agents[a] = "error" /\ exec[k].agents[b] = "ok"

PlaceInInput(k, url) ==
  LET input == deduplicateByDomain(jobs[k].data.competitorUrls)
  IN {i \in 1..Len(input) : snapshotUrl(input[i]) = url}

\* C27: in the report of a successful scan competitorsAnalyzed and
\* detailedAgentReports have the same length, their i-th entries have the same
\* URL, and the entries follow the order of the deduplicated input list,
\* whatever the order in which acquisitions and analyzer calls completed.
C27_ReportListsAligned ==
  \A k \in JobKeys :
    (Returned(k) /\ jobs[k].returnvalue.success) =>
      LET analyzed == jobs[k].returnvalue.competitorsAnalyzed
          reports == jobs[k].returnvalue.detailedAgentReports
      IN /\ Len(analyzed) = Len(reports)
         /\ \A a \in 1..Len(analyzed) :
              /\ reports[a].url = analyzed[a]
              /\ PlaceInInput(k, analyzed[a]) # {}
         /\ \A a, b \in 1..Len(analyzed) :
              a < b => \A i \in PlaceInInput(k, analyzed[a]) :
                         \A j \in PlaceInInput(k, analyzed[b]) : i < j

\* A successful scan of two sites whose specialist stages ended differently.
C27_Witness ==
  \E k \in JobKeys :
    /\ Returned(k) /\ jobs[k].returnvalue.success
    /\ Len(jobs[k].returnvalue.detailedAgentReports) = 2
    /\ jobs[k].returnvalue.detailedAgentReports[1].status = "error"
    /\ jobs[k].returnvalue.detailedAgentReports[2].status = "ok"

\* ------------------------------------------------------------------------
\* Specification of progress: one job of up to MaxProgressSites sites is
\* executed by the processor that reports progress to the job
\* ------------------------------------------------------------------------
ProgressSites ==
  <<"a.com", "https://b.com", "https://c.com", "https://d.com", "https://e.com",
    "https://f.com">>

ProgressRequest(n) ==
  [brandName |-> "Acme", category |-> Undefined,
   competitorUrls |-> SubSeq(ProgressSites, 1, n), urlsIsArray |-> TRUE]

ProgressSubmit ==
  /\ Idle
  /\ nSubmits = 0
  /\ \E n \in 1..MaxProgressSites : deepScanHandler(ProgressRequest(n))
  /\ UNCHANGED first

ProgressNext ==
  \/ ProgressSubmit
  \/ Respond
  \/ \E k \in JobKeys : WiredClaim(k)
  \/ \E k \in JobKeys : \E i \in 1..Len(exec[k].acq) : \E ok \in BOOLEAN : PrimaryFinish(k, i, ok)
  \/ \E k \in JobKeys : \E i \in 1..Len(exec[k].acq) : \E ok \in BOOLEAN : FallbackFinish(k, i, ok)
  \/ \E k \in JobKeys : AcquisitionSettled(k)
  \/ \E k \in JobKeys : \E a \in 1..Len(exec[k].agents) : \E ok \in BOOLEAN : AgentsFinish(k, a, ok)
  \/ \E k \in JobKeys : \E ok \in BOOLEAN : SynthFinish(k, ok)

SpecProgress == Init /\ [][ProgressNext]_vars

\* ------------------------------------------------------------------------
\* Specification of progress through reclaim: a job of two sites is executed
\* by the processor that reports progress, the worker process may die, and
\* the stalled check hands the job to the restarted worker
\* ------------------------------------------------------------------------
ReclaimSubmit ==
  /\ Idle
  /\ nSubmits = 0
  /\ deepScanHandler(ProgressRequest(2))
  /\ UNCHANGED first

ReclaimNext ==
  \/ ReclaimSubmit
  \/ Respond
  \/ \E k \in JobKeys : WiredClaim(k)
  \/ \E k \in JobKeys : \E i \in 1..Len(exec[k].acq) : \E ok \in BOOLEAN : PrimaryFinish(k, i, ok)
  \/ \E k \in JobKeys : \E i \in 1..Len(exec[k].acq) : \E ok \in BOOLEAN : FallbackFinish(k, i, ok)
  \/ \E k \in JobKeys : AcquisitionSettled(k)
  \/ \E k \in JobKeys : \E a \in 1..Len(exec[k].agents) : \E ok \in BOOLEAN : AgentsFinish(k, a, ok)
  \/ \E k \in JobKeys : \E ok \in BOOLEAN : SynthFinish(k, ok)
  \/ WorkerCrash
  \/ \E k \in JobKeys : StalledCheck(k)

SpecReclaim == Init /\ [][ReclaimNext]_vars

\* C28: a progress reading of 100 is given only once the synthesis has
\* completed or the job has failed; while the synthesis call is in flight the
\* job's progress is below 100.
C28_Below100DuringSynthesis ==
  \A k \in JobKeys : exec[k].synth = "running" => jobs[k].progress < 100

\* n / d rounded to the nearest integer, halves upwards.
Rounded(n, d) == CHOOSE r \in 0..100 : 2 * d * r <= 2 * n + d /\ 2 * n + d < 2 * d * (r + 1)

AcquisitionsFinished(k) == Cardinality({i \in 1..Len(exec[k].acq) : IsSettled(exec[k].acq[i])})
StagesFinished(k) == Cardinality({a \in 1..Len(exec[k].agents) : exec[k].agents[a] # "running"})

\* C29: with k of total acquisitions finished the reported progress is
\* round(50 * k / total), 50 when all have finished; with j of s specialist
\* stages finished it is round(50 + 50 * j / s); readings of the acquisition
\* phase lie in 0..50, readings of the analysis phase in 50..100.
C29_ProgressFormula ==
  \A k \in JobKeys :
    LET total == Len(exec[k].acq)
        s == Len(exec[k].agents)
        progress == jobs[k].progress
    IN /\ exec[k].pc = "acquire" =>
            /\ progress = Rounded(50 * AcquisitionsFinished(k), total)
            /\ progress \in 0..50
            /\ AcquisitionsFinished(k) = total => progress = 50
       /\ exec[k].pc \in {"agents", "synth"} =>
            /\ progress = Rounded(50 * s + 50 * StagesFinished(k), s)
            /\ progress \in 50..100

\* One of four acquisitions has finished (12.5 is reported as 13), and one of
\* three specialist stages (66.67 as 67).
C29_Witness ==
  \E k \in JobKeys :
    \/ exec[k].pc = "acquire" /\ Len(exec[k].acq) = 4 /\ AcquisitionsFinished(k) = 1
         /\ jobs[k].progress = 13
    \/ exec[k].pc = "agents" /\ Len(exec[k].agents) = 3 /\ StagesFinished(k) = 1
         /\ jobs[k].progress = 67

\* C30: the progress of a job never decreases over the life of the job, a
\* reclaim after a crash and the execution that follows it included.
C30_ProgressNeverDecreases ==
  [][\A k \in JobKeys : jobs'[k].progress >= jobs[k].progress]_vars

\* ------------------------------------------------------------------------
\* Specification of selection under resubmission: a list of one site more
\* than the worker analyzes is submitted, then submitted again in any order
\* ------------------------------------------------------------------------
SelectRequest ==
  [brandName |-> "Acme", category |-> Undefined,
   competitorUrls |-> SubSeq(ProgressSites, 1, SiteCap + 1), urlsIsArray |-> TRUE]

SelectSubmitFirst ==
  /\ nSubmits = 0
  /\ Submit(SelectRequest)
  /\ first' = [status |-> resp'.status, jobId |-> resp'.jobId, req |-> SelectRequest,
               again |-> <<>>]

SelectNext == SelectSubmitFirst \/ FpSubmitAgain

SpecSelect == Init /\ [][SelectNext]_vars

\* The sites the worker selects from a submitted list, by registrable domain.
SelectedSites(competitorUrls) ==
  {getDomain(u) : u \in Range(slice(deduplicateByDomain(competitorUrls), SiteCap))}

\* C31: two submissions answered with the same jobId select the same set of
\* sites for analysis (per-domain deduplication, then truncation to 5), so the
\* report of their job does not depend on which of them created it.
C31_SameFingerprintSameSites ==
  (first.status = 202 /\ first.again # <<>> /\ resp.jobId = first.jobId) =>
    SelectedSites(first.again) = SelectedSites(first.req.competitorUrls)

\* C32: a Poll that finds the job in state completed is answered with the
\* stored result, never with "not found", whether the 'completed' listener has
\* run, has not run yet, or has failed to write.
C32_CompletedPollFindsResult ==
  resp.op = "poll" =>
    \A k \in getJob(jobs, resp.jobId) :
      jobs[k].state = "completed" => resp.status = 200 /\ "result" \in resp.keys

\* ------------------------------------------------------------------------
\* Specification of repeated executions: two requests of one site each are
\* submitted again and again, completed jobs age out of the queue, the worker
\* may crash and the stalled check hands its job out again
\* ------------------------------------------------------------------------
MaxRerunSubmits == 3

RerunRequests ==
  {[brandName |-> "Acme", category |-> Undefined, competitorUrls |-> <<"a.com">>,
    urlsIsArray |-> TRUE],
   [brandName |-> "Zen", category |-> Undefined, competitorUrls |-> <<"localhost">>,
    urlsIsArray |-> TRUE]}

RerunSubmit ==
  /\ Idle
  /\ nSubmits < MaxRerunSubmits
  /\ \E req \in RerunRequests : deepScanHandler(req)
  /\ UNCHANGED first

RerunNext ==
  \/ RerunSubmit
  \/ Respond
  \/ \E k \in JobKeys : Claim(k)
  \/ \E k \in JobKeys : \E i \in 1..Len(exec[k].acq) : \E ok \in BOOLEAN : PrimaryFinish(k, i, ok)
  \/ \E k \in JobKeys : \E i \in 1..Len(exec[k].acq) : \E ok \in BOOLEAN : FallbackFinish(k, i, ok)
  \/ \E k \in JobKeys : AcquisitionSettled(k)
  \/ \E k \in JobKeys : \E a \in 1..Len(exec[k].agents) : \E ok \in BOOLEAN : AgentsFinish(k, a, ok)
  \/ \E k \in JobKeys : \E ok \in BOOLEAN : SynthFinish(k, ok)
  \/ \E k \in JobKeys : \E ok \in BOOLEAN : SaveResult(k, ok)
  \/ WorkerCrash
  \/ \E k \in JobKeys : StalledCheck(k)

SpecRerun == Init /\ [][RerunNext]_vars

\* C33: completed and failed are terminal: a job in one of them never changes
\* state again (it can only age out of the queue), and a FinalReport stored in
\* the Result Sink is never modified afterwards.
C33_TerminalNeverChanges ==
  [][/\ \A k \in JobKeys :
          jobs[k].state \in {"completed", "failed"} =>
            jobs'[k].state \in {jobs[k].state, "removed"}
     /\ \A id \in DOMAIN db :
          "analysis" \in db[id].keys => id \in DOMAIN db' /\ db'[id] = db[id]]_vars

\* C34: however often a job is executed, the Result Sink holds one document
\* under its jobId: a write of the 'completed' listener replaces the document
\* of that id with what this execution produced and touches no other document.
C34_OneDocumentPerJob ==
  [][db' # db =>
       \E k \in pending \ pending' :
         /\ DOMAIN db' = DOMAIN db \cup {jobs[k].id}
         /\ db'[jobs[k].id] = dataToSave(jobs[k], jobs[k].returnvalue)
         /\ \A id \in DOMAIN db \ {jobs[k].id} : db'[id] = db[id]]_vars

C34_Witness ==
  \E k \in JobKeys :
    /\ jobs[k].state = "completed"
    /\ jobs[k].stalledCount > 0
    /\ k \notin pending
    /\ jobs[k].id \in DOMAIN db
    /\ db[jobs[k].id] = dataToSave(jobs[k], jobs[k].returnvalue)

\* ------------------------------------------------------------------------
\* Specification of invalid entries: one request whose list mixes a string
\* without a registrable domain, a string that is no URL, and valid URLs
\* ------------------------------------------------------------------------
MaxSkipUrls == 2

SkipUrls == {"localhost", "a.com", "https://b.com", "https://c.com:99999"}

SkipRequests ==
  [brandName : {"Acme"}, category : {Undefined},
   competitorUrls : SeqsUpTo(SkipUrls, MaxSkipUrls) \ {<<>>}, urlsIsArray : {TRUE}]

SkipSubmit ==
  /\ Idle
  /\ nSubmits = 0
  /\ \E req \in SkipRequests : deepScanHandler(req)
  /\ UNCHANGED first

SkipNext ==
  \/ SkipSubmit
  \/ Respond
  \/ \E k \in JobKeys : Claim(k)
  \/ \E k \in JobKeys : \E i \in 1..Len(exec[k].acq) : UrlRejected(k, i)
  \/ \E k \in JobKeys : \E i \in 1..Len(exec[k].acq) : \E ok \in BOOLEAN : PrimaryFinish(k, i, ok)
  \/ \E k \in JobKeys : \E i \in 1..Len(exec[k].acq) : \E ok \in BOOLEAN : FallbackFinish(k, i, ok)
  \/ \E k \in JobKeys : AcquisitionSettled(k)
  \/ \E k \in JobKeys : \E a \in 1..Len(exec[k].agents) : \E ok \in BOOLEAN : AgentsFinish(k, a, ok)
  \/ \E k \in JobKeys : \E ok \in BOOLEAN : SynthFinish(k, ok)

SpecSkip == Init /\ [][SkipNext]_vars

DomainsOf(urls) == {getDomain(u) : u \in Range(urls)} \ {NullDomain}

\* C35: a URL without a root domain is dropped by the Deduplicator and the job
\* goes on: every root domain of the submitted list is still analyzed, the job
\* is never failed, and it returns the total failure without any acquisition
\* attempt only when no URL remained.
C35_InvalidUrlSkipped ==
  \A k \in JobKeys :
    exec[k].pc # "idle" =>
      LET e == exec[k]
          submitted == jobs[k].data.competitorUrls
      IN /\ \A i \in 1..Len(e.urlsToProcess) : getDomain(e.urlsToProcess[i]) # NullDomain
         /\ DomainsOf(e.urlsToProcess) = DomainsOf(submitted)
         /\ jobs[k].state # "failed"
         /\ (Returned(k) /\ \A i \in 1..Len(e.acq) : IsOk(e.acq[i])) =>
              \/ e.synth = "failed"
              \/ /\ jobs[k].returnvalue.success
                 /\ {getDomain(u) : u \in Range(jobs[k].returnvalue.competitorsAnalyzed)}
                      = DomainsOf(submitted)
              \/ /\ DomainsOf(submitted) = {}
                 /\ ~jobs[k].returnvalue.success
                 /\ jobs[k].returnvalue.error = TotalFailureMsg
         /\ (Returned(k) /\ e.urlsToProcess = <<>>) => DomainsOf(submitted) = {}

C35_Witness ==
  \E k \in JobKeys :
    /\ jobs[k].data.competitorUrls = <<"localhost", "a.com">>
    /\ Returned(k)
    /\ jobs[k].returnvalue.success
    /\ Len(jobs[k].returnvalue.competitorsAnalyzed) = 1

\* ------------------------------------------------------------------------
\* Specification of the category default: a request is submitted, and then
\* submitted again with the same brand and list and any category
\* ------------------------------------------------------------------------
CategoryValues == {Undefined, "", "General", "SaaS"}

CategoryRequests ==
  [brandName : FpBrands, category : CategoryValues,
   competitorUrls : SeqsUpTo(FpUrls, MaxFpUrls), urlsIsArray : {TRUE}]

CategorySubmitFirst ==
  /\ nSubmits = 0
  /\ \E req \in CategoryRequests :
       /\ Submit(req)
       /\ first' = [status |-> resp'.status, jobId |-> resp'.jobId, req |-> req, again |-> <<>>]

\* first.again holds the category of the later submission
CategorySubmitAgain ==
  /\ first.status = 202
  /\ \E c \in CategoryValues :
       /\ Submit([first.req EXCEPT !.category = c])
       /\ first' = [first EXCEPT !.again = <<c>>]

CategoryNext == CategorySubmitFirst \/ CategorySubmitAgain

SpecCategory == Init /\ [][CategoryNext]_vars

\* C36: a request without a category and the same request with category
\* "General" are one request: both are answered with the same jobId and there
\* is one job for them in the queue.
C36_MissingCategoryIsGeneral ==
  (first.status = 202 /\ first.again # <<>>
     /\ first.req.category \in {Undefined, "General"}
     /\ first.again[1] \in {Undefined, "General"}) =>
    /\ resp.status = 202
    /\ resp.jobId = first.jobId
    /\ Cardinality(getJob(jobs, first.jobId)) = 1
    /\ \A k \in JobKeys :
         (/\ jobs[k].data.brandName = first.req.brandName
          /\ jobs[k].data.competitorUrls = first.req.competitorUrls
          /\ jobs[k].data.category \in {Undefined, "General"}) => jobs[k].id = first.jobId

C36_Witness ==
  /\ first.status = 202
  /\ first.req.category = Undefined
  /\ first.again = <<"General">>
  /\ resp.jobId = first.jobId
  /\ Len(jobs) = 1

\* C37: computing the fingerprint leaves the request as it was: the job created
\* by a submission stores the submitted list in the submitted order, and the
\* brand name and the category as submitted.
C37_RequestStoredAsSubmitted ==
  first.status = 202 =>
    /\ getJob(jobs, first.jobId) # {}
    /\ \A k \in getJob(jobs, first.jobId) :
         /\ jobs[k].data.competitorUrls = first.req.competitorUrls
         /\ jobs[k].data.brandName = first.req.brandName
         /\ jobs[k].data.category = first.req.category

C37_Witness ==
  /\ first.status = 202
  /\ first.req.competitorUrls = <<"https://b.com", "a.com">>
  /\ first.req.category = Undefined
  /\ \E k \in getJob(jobs, first.jobId) :
       /\ jobs[k].data.competitorUrls = <<"https://b.com", "a.com">>
       /\ jobs[k].id.competitorUrls = <<"a.com", "https://b.com">>
       /\ jobs[k].data.category = Undefined

\* ------------------------------------------------------------------------
\* Specification of technology detection: within the primary and the fallback
\* attempt of a site the detection call returns, with or without a failure of
\* the model call behind it, before the attempt produces its snapshot
\* ------------------------------------------------------------------------
\* A faulty variant of detectTechnologiesAI: the failure of the call is thrown
\* to the attempt.
detectTechnologiesAIThrows(ok) == IF ok THEN "technologies" ELSE "throws"

\* try { ... return result.technologies } catch (e) { return ['AI Detection Failed'] }
detectTechnologiesAI(ok) == IF ok THEN "technologies" ELSE "AI Detection Failed"

Detected(e, i) == i \in DOMAIN e.tech /\ e.tech[i].attempt = e.acq[i]

TechDetected(k, i, ok) ==
  /\ Idle
  /\ exec[k].pc = "acquire"
  /\ exec[k].acq[i] \in {"primary", "fallback"}
  /\ validUrl(snapshotUrl(exec[k].urlsToProcess[i]))
  /\ ~Detected(exec[k], i)
  /\ exec' = [exec EXCEPT ![k].tech =
                (i :> [attempt |-> exec[k].acq[i], technologies |-> detectTechnologiesAI(ok)]) @@ @]
  /\ UNCHANGED <<jobs, pending, db, resp, first, nSubmits, nCrashes, zombies, lostBrowsers>>

\* an attempt returns its snapshot only after the detection has returned; an
\* exception out of the detection would leave it through its catch
ReturnsSnapshot(e, i) == Detected(e, i) /\ e.tech[i].technologies # "throws"

TechPrimary(k, i, ok) ==
  /\ ok => ReturnsSnapshot(exec[k], i)
  /\ PrimaryFinish(k, i, ok)

TechFallback(k, i, ok) ==
  /\ ok => ReturnsSnapshot(exec[k], i)
  /\ FallbackFinish(k, i, ok)

TechNext ==
  \/ AcquireSubmit
  \/ Respond
  \/ \E k \in JobKeys : Claim(k)
  \/ \E k \in JobKeys : \E i \in 1..Len(exec[k].acq) : UrlRejected(k, i)
  \/ \E k \in JobKeys : \E i \in 1..Len(exec[k].acq) : \E ok \in BOOLEAN : TechDetected(k, i, ok)
  \/ \E k \in JobKeys : \E i \in 1..Len(exec[k].acq) : \E ok \in BOOLEAN : TechPrimary(k, i, ok)
  \/ \E k \in JobKeys : \E i \in 1..Len(exec[k].acq) : \E ok \in BOOLEAN : TechFallback(k, i, ok)
  \/ \E k \in JobKeys : AcquisitionSettled(k)

SpecTech == Init /\ [][TechNext]_vars

\* C38: a failure of technology detection never fails the acquisition it is
\* part of: the detection always returns a technology list or the placeholder
\* to its attempt, primary or fallback, and every acquired site has a snapshot
\* with one of the two.
C38_DetectionFailureNotFatal ==
  \A k \in JobKeys :
    \A i \in 1..Len(exec[k].acq) :
      /\ i \in DOMAIN exec[k].tech =>
           exec[k].tech[i].technologies \in {"technologies", "AI Detection Failed"}
      /\ IsOk(exec[k].acq[i]) =>
           /\ i \in DOMAIN exec[k].tech
           /\ exec[k].tech[i].attempt = (IF exec[k].acq[i] = "ok_primary" THEN "primary" ELSE "fallback")

C38_Witness ==
  \E k \in JobKeys :
    /\ exec[k].acq = <<"ok_primary", "ok_fallback">>
    /\ \A i \in 1..2 : exec[k].tech[i].technologies = "AI Detection Failed"

\* C39: with every external call returning or failing and the queue and the
\* worker kept running, every job that a worker has claimed eventually reaches
\* a terminal state, completed or failed: no job stays active forever.
C39_ClaimedJobTerminates ==
  \A k \in 1..(MaxLiveJobs + 1) :
    (k \in JobKeys /\ jobs[k].state = "active") ~> Terminal(k)

C39_Witness ==
  \E k \in JobKeys :
    /\ jobs[k].state = "completed"
    /\ jobs[k].stalledCount = 0
    /\ Returned(k)
    /\ exec[k].acq = <<"failed", "failed">>

\* C40: the visual analyzer is invoked for a site exactly when the site's
\* snapshot carries a visual capture; for a snapshot without one (every
\* fallback snapshot) it is never invoked and the site's report carries the
\* explicit placeholder in its place.
C40_VisualIffCapture ==
  \A k \in JobKeys : \A a \in 1..Len(exec[k].agents) :
    ReportProduced(k, a) =>
      /\ hasScreenshot(exec[k], a) <=> "visual_ux" \in Launched(exec[k], a)
      /\ ~hasScreenshot(exec[k], a) =>
           /\ ~HasReturned(exec[k], a, "visual_ux")
           /\ "visual_ux" \in allAgentReports(exec[k])[a].findings

====
